---- MODULE Spec2Model ----
(***************************************************************************)
(* A model of src/app.py, the Streamlit front end "LiDAR Classifier &      *)
(* Contour Generator".  Every browser session runs the script in a thread  *)
(* of its own; the sessions share the temporary directory and pyplot's     *)
(* figure registry.  A session runs one request: step 1 (classify a point  *)
(* cloud through the PDAL pipeline executor) or step 2 (contour map).      *)
(*                                                                         *)
(* Lengths are integers in centimetres: 0.2 m is 20, a grid spacing of     *)
(* 0.5 m is 50, floor(z) is (z \div 100) * 100.                            *)
(***************************************************************************)
EXTENDS Integers, Sequences, FiniteSets, Bags, TLC

\* The two concurrent browser sessions.
Sessions == {1, 2}

\* Longest uploaded point sequence of a classification request.
MaxPts == 2

\* Most classes picked in the multiselect of a contour request.
MaxSel == 2

VARIABLES
    pc,             \* each session's position in the script
    fs,             \* the shared temporary directory: path -> content
    pipeline_json,  \* step 1: the session's pipeline description (line 46)
    result,         \* step 1: what subprocess.run returned (line 77)
    ui,             \* what the session's page shows
    req,            \* step 2: the widgets' values and the loaded las
    idx,            \* step 2: the per-class loop's position
    custom_colors,  \* step 2: the colour of every selected class (line 106)
    ax,             \* step 2: the session's own axes: one entry per iteration
    figs            \* pyplot's registry of open figures, the current one last

vars == <<pc, fs, pipeline_json, result, ui, req, idx, custom_colors, ax, figs>>

None == "none"

(***************************************************************************)
(* Paths.  NamedTemporaryFile gives every request names of its own; the    *)
(* pipeline description and the contour image have one fixed name each.    *)
(***************************************************************************)
input_path(s) == <<"in", s>>
output_path(s) == <<"out", s>>
pipeline_path == <<"pdal_pipeline.json", 0>>
output_img_path == <<"contour_output.png", 0>>

Paths ==
    {input_path(s) : s \in Sessions} \cup {output_path(s) : s \in Sessions}
        \cup {pipeline_path, output_img_path}

(***************************************************************************)
(* Step 1: the point cloud of an unclassified upload.  A point carries its *)
(* index in the upload, the verdict the ground filter reaches on it (a     *)
(* function of its coordinates, which are not modelled in step 1), its     *)
(* Classification and whether HeightAboveGround has been computed.         *)
(***************************************************************************)
Uploads == UNION {[1..n -> BOOLEAN] : n \in 0..MaxPts}

PointsOf(u) ==
    [i \in 1..Len(u) |->
        [id |-> i, ground |-> u[i], Classification |-> 0, hag |-> FALSE]]

\* The pipeline description of lines 46-69, stage by stage.
PipelineJson(in, out) ==
    << [type |-> "readers.las", filename |-> in],
       [type |-> "filters.smrf"],
       [type |-> "filters.assign", value |-> 0],
       [type |-> "filters.hag"],
       [type |-> "filters.range", lo |-> 2, hi |-> 2],
       [type |-> "writers.las", filename |-> out] >>

\* The label filters.smrf gives the points it rejects.
NonGround == 1

\* The label filters.smrf gives the points it accepts.
Ground == 2

InRange(p, lo, hi) == lo <= p.Classification /\ p.Classification <= hi

\* One stage of the executor on its state: the point view and the files.
ApplyStage(stage, st) ==
    CASE stage.type = "readers.las" ->
            [st EXCEPT !.view = st.fs[stage.filename]]
      [] stage.type = "filters.smrf" ->
            [st EXCEPT !.view =
                [i \in 1..Len(st.view) |->
                    [st.view[i] EXCEPT !.Classification =
                        IF st.view[i].ground THEN Ground ELSE NonGround]]]
      [] stage.type = "filters.assign" ->
            [st EXCEPT !.view =
                [i \in 1..Len(st.view) |->
                    [st.view[i] EXCEPT !.Classification = stage.value]]]
      [] stage.type = "filters.hag" ->
            [st EXCEPT !.view =
                [i \in 1..Len(st.view) |-> [st.view[i] EXCEPT !.hag = TRUE]]]
      [] stage.type = "filters.range" ->
            [st EXCEPT !.view =
                SelectSeq(st.view, LAMBDA p : InRange(p, stage.lo, stage.hi))]
      [] stage.type = "writers.las" ->
            [st EXCEPT !.fs = [st.fs EXCEPT ![stage.filename] = st.view]]

\* The first n stages of a pipeline, in the order of the description.
RECURSIVE RunStages(_, _, _)
RunStages(p, n, st) ==
    IF n = 0 THEN st ELSE ApplyStage(p[n], RunStages(p, n - 1, st))

StageTypes(p, n) == [i \in 1..n |-> p[i].type]

NoResult == [returncode |-> 0, stderr |-> "", ran |-> <<>>, pipeline |-> <<>>]
NoUi == [status |-> None, text |-> "", offered |-> FALSE, download |-> None]
NoReq == [las |-> EmptyBag, selected |-> <<>>, picks |-> <<>>,
          line_width |-> 0, grid_spacing |-> 0]

Init ==
    /\ pc = [s \in Sessions |-> "idle"]
    /\ fs = [p \in Paths |-> None]
    /\ pipeline_json = [s \in Sessions |-> <<>>]
    /\ result = [s \in Sessions |-> NoResult]
    /\ ui = [s \in Sessions |-> NoUi]
    /\ req = [s \in Sessions |-> NoReq]
    /\ idx = [s \in Sessions |-> 0]
    /\ custom_colors = [s \in Sessions |-> <<>>]
    /\ ax = [s \in Sessions |-> <<>>]
    /\ figs = <<>>

\* Lines 32-69: the upload is written to input_path, output_path is created
\* empty, and the pipeline description is built.
Upload(s) ==
    /\ pc[s] = "idle"
    /\ \E u \in Uploads :
          fs' = [fs EXCEPT ![input_path(s)] = PointsOf(u),
                           ![output_path(s)] = <<>>]
    /\ pipeline_json' =
          [pipeline_json EXCEPT ![s] = PipelineJson(input_path(s), output_path(s))]
    /\ pc' = [pc EXCEPT ![s] = "built"]
    /\ UNCHANGED <<result, ui, req, idx, custom_colors, ax, figs>>

\* Lines 72-74: the description is saved under the fixed name.
WritePipeline(s) ==
    /\ pc[s] = "built"
    /\ fs' = [fs EXCEPT ![pipeline_path] = pipeline_json[s]]
    /\ pc' = [pc EXCEPT ![s] = "written"]
    /\ UNCHANGED <<pipeline_json, result, ui, req, idx, custom_colors, ax, figs>>

\* Line 77: the executor reads the description found under the fixed name
\* and runs its stages in order.  It may stop after any stage (a stage that
\* fails, a killed process); it returns 0 only when every stage has run.
RunPdal(s) ==
    /\ pc[s] = "written"
    /\ LET p == fs[pipeline_path] IN
       \E n \in 0..Len(p) :
          LET st == RunStages(p, n, [view |-> <<>>, fs |-> fs]) IN
          /\ fs' = st.fs
          /\ result' = [result EXCEPT ![s] =
                [returncode |-> IF n = Len(p) THEN 0 ELSE 1,
                 stderr |-> IF n = Len(p) THEN "" ELSE p[n + 1].type,
                 ran |-> StageTypes(p, n),
                 pipeline |-> p]]
    /\ pc' = [pc EXCEPT ![s] = "ran"]
    /\ UNCHANGED <<pipeline_json, ui, req, idx, custom_colors, ax, figs>>

\* A report that offers the output file whatever the executor returned.
ReportAlways(s) ==
    /\ pc[s] = "ran"
    /\ ui' = [ui EXCEPT ![s] =
          [status |-> IF result[s].returncode # 0 THEN "error" ELSE "success",
           text |-> result[s].stderr,
           offered |-> TRUE,
           download |-> fs[output_path(s)]]]
    /\ pc' = [pc EXCEPT ![s] = "done"]
    /\ UNCHANGED <<fs, pipeline_json, result, req, idx, custom_colors, ax, figs>>

\* Lines 79-85: the error with the executor's stderr, or the download of
\* the session's own output file.
Report(s) ==
    /\ pc[s] = "ran"
    /\ ui' = [ui EXCEPT ![s] =
          IF result[s].returncode # 0
          THEN [status |-> "error", text |-> result[s].stderr,
                offered |-> FALSE, download |-> None]
          ELSE [status |-> "success", text |-> "",
                offered |-> TRUE, download |-> fs[output_path(s)]]]
    /\ pc' = [pc EXCEPT ![s] = "done"]
    /\ UNCHANGED <<fs, pipeline_json, result, req, idx, custom_colors, ax, figs>>

(***************************************************************************)
(* Step 2: the contour map.  A las point is [c, x, y, z]; a point cloud is *)
(* a bag of points.                                                        *)
(***************************************************************************)

\* Lines 17-24.
default_classification_styles ==
    [c \in {2, 3, 4, 5, 6, 9} |->
        CASE c = 2 -> <<"Ground", "white">>
          [] c = 3 -> <<"Low Vegetation", "lightgreen">>
          [] c = 4 -> <<"Medium Vegetation", "green">>
          [] c = 5 -> <<"High Vegetation", "darkgreen">>
          [] c = 6 -> <<"Building", "slategray">>
          [] c = 9 -> <<"Water", "blue">>]

\* default_classification_styles.get(cls, ("Unknown", "yellow")), line 109.
StyleOf(cls) ==
    IF cls \in DOMAIN default_classification_styles
    THEN default_classification_styles[cls]
    ELSE <<"Unknown", "yellow">>

\* matplotlib.colors.CSS4_COLORS, the names the style table uses.
CSS4_COLORS ==
    [n \in {"white", "lightgreen", "green", "darkgreen", "slategray", "blue",
            "yellow"} |->
        CASE n = "white" -> "#ffffff"
          [] n = "lightgreen" -> "#90ee90"
          [] n = "green" -> "#008000"
          [] n = "darkgreen" -> "#006400"
          [] n = "slategray" -> "#708090"
          [] n = "blue" -> "#0000ff"
          [] n = "yellow" -> "#ffff00"]

\* Lines 13-14: a colour name's hex form; a hex string is its own.
color_name_to_hex(color_name) ==
    IF color_name \in DOMAIN CSS4_COLORS THEN CSS4_COLORS[color_name]
    ELSE color_name

\* Line 125: the fewest points a class needs to be gridded.
MinPoints == 100

\* Line 137: the contour interval, 0.2 m.
LevelStep == 20

\* np.floor and np.ceil of a length: whole metres.
Floor(z) == (z \div 100) * 100
Ceil(z) == -(((-z) \div 100) * 100)

Min(S) == CHOOSE m \in S : \A e \in S : m <= e
Max(S) == CHOOSE m \in S : \A e \in S : m >= e

\* np.arange(start, stop, step), step > 0: start + i * step for every
\* i < ceil((stop - start) / step).
ARange(start, stop, step) ==
    LET n == -((start - stop) \div step) IN
    [i \in 1..(IF n > 0 THEN n ELSE 0) |-> start + (i - 1) * step]

\* Lines 122-123: the points of one class.
Masked(las, class_code) ==
    LET D == {p \in DOMAIN las : p.c = class_code} IN [p \in D |-> las[p]]

\* Line 99: np.unique(las.classification).
unique_classes(las) == {p.c : p \in DOMAIN las}

NaN == [valid |-> FALSE, z |-> 0]

Cross(o, a, b) == (a.x - o.x) * (b.y - o.y) - (a.y - o.y) * (b.x - o.x)

\* The node lies in the triangle a b c, its edges included.
InTriangle(n, a, b, c) ==
    /\ Cross(a, b, c) # 0
    /\ \/ Cross(a, b, n) >= 0 /\ Cross(b, c, n) >= 0 /\ Cross(c, a, n) >= 0
       \/ Cross(a, b, n) <= 0 /\ Cross(b, c, n) <= 0 /\ Cross(c, a, n) <= 0

\* Line 131: griddata(..., method='linear') at one node: the barycentric
\* interpolation over a triangle of sample points that holds the node, nan
\* outside the samples' convex hull.  The samples of one class lie on a
\* plane in every cloud below, so every triangle gives the same value.
GridData(pts, n) ==
    LET T == {t \in pts \X pts \X pts : InTriangle(n, t[1], t[2], t[3])} IN
    IF T = {} THEN NaN
    ELSE LET t == CHOOSE t \in T : TRUE
             a == t[1]
             b == t[2]
             c == t[3]
         IN [valid |-> TRUE,
             z |-> (Cross(b, c, n) * a.z + Cross(c, a, n) * b.z
                        + Cross(a, b, n) * c.z) \div Cross(a, b, c)]

\* Lines 130-132: grid_z over meshgrid(x_range, y_range), invalid nodes masked.
GridZ(pts, x_range, y_range) ==
    [g \in (1..Len(x_range)) \X (1..Len(y_range)) |->
        GridData(pts, [x |-> x_range[g[1]], y |-> y_range[g[2]]])]

\* Line 134: grid_z.mask.all().
AllMasked(grid_z) == \A g \in DOMAIN grid_z : ~grid_z[g].valid

\* Line 138: the levels at which ax.contour finds a line: the field crosses
\* the level inside a cell whose four corners are valid.
ContourLines(grid_z, nx, ny, levels) ==
    LET cells == {{grid_z[<<i, j>>], grid_z[<<i + 1, j>>],
                   grid_z[<<i, j + 1>>], grid_z[<<i + 1, j + 1>>]} :
                      i \in 1..(nx - 1), j \in 1..(ny - 1)}
        spans == {<<Min({a.z : a \in cs}), Max({a.z : a \in cs})>> :
                      cs \in {cs \in cells : \A a \in cs : a.valid}}
    IN {levels[k] : k \in
          {k \in 1..Len(levels) :
              \E sp \in spans : sp[1] <= levels[k] /\ levels[k] < sp[2]}}

\* An elevation range taken over the whole cloud instead of the class.
LevelsGlobal(las, class_code) ==
    LET zs == {p.z : p \in DOMAIN las} IN
    ARange(Floor(Min(zs)), Ceil(Max(zs)), LevelStep)

\* Line 137: np.arange(floor(min z), ceil(max z), 0.2) over the class's points.
Levels(las, class_code) ==
    LET zs == {p.z : p \in DOMAIN Masked(las, class_code)} IN
    ARange(Floor(Min(zs)), Ceil(Max(zs)), LevelStep)

\* A range that runs up to and including its stop.
AxisRangeClosed(vals, grid_spacing) ==
    ARange(Min(vals), Max(vals) + 1, grid_spacing)

\* Lines 128-129: np.arange(np.min(v), np.max(v), grid_spacing).
AxisRange(vals, grid_spacing) == ARange(Min(vals), Max(vals), grid_spacing)

\* A threshold that also skips a class of exactly the minimum size.
TooFewStrict(n) == n <= MinPoints

\* Line 125: len(z) < 100.
TooFew(n) == n < MinPoints

\* Colours taken from the style table whatever the pickers returned.
CustomColorsDefault(selected, picks) ==
    [cls \in {selected[i] : i \in 1..Len(selected)} |->
        color_name_to_hex(StyleOf(cls)[2])]

\* Lines 106-112: custom_colors[cls] is what the class's colour picker
\* returned: the caller's pick, or the hex form of the class's default.
CustomColors(selected, picks) ==
    [cls \in {selected[i] : i \in 1..Len(selected)} |->
        IF cls \in DOMAIN picks THEN picks[cls]
        ELSE color_name_to_hex(StyleOf(cls)[2])]

(***************************************************************************)
(* The uploads of step 2.  Every class lies on a plane; a class has 100    *)
(* points (4 places, 25 returns each) or 99 (3 places, 33 returns each).   *)
(***************************************************************************)
Patch(c, pts, n) ==
    [p \in {[c |-> c, x |-> q[1], y |-> q[2], z |-> q[3]] : q \in pts} |-> n]

\* z = 9.50 + x over a 3 m by 2 m rectangle.
Slope == {<<0, 0, 950>>, <<300, 0, 1250>>, <<0, 200, 950>>, <<300, 200, 1250>>}
\* z = 31.00 + 2 y over a 2.6 m by 2.4 m rectangle.
Steep == {<<40, 10, 3120>>, <<300, 10, 3120>>, <<40, 250, 3600>>, <<300, 250, 3600>>}
\* Constant fields.
Flat1050 == {<<0, 0, 1050>>, <<300, 0, 1050>>, <<0, 200, 1050>>, <<300, 200, 1050>>}
Flat1000 == {<<0, 0, 1000>>, <<250, 0, 1000>>, <<0, 250, 1000>>, <<250, 250, 1000>>}
\* Three places only.
Sparse == {<<0, 0, 1500>>, <<300, 0, 1800>>, <<0, 200, 1500>>}
\* A thin band across the diagonal of its bounding box: no grid node of
\* any spacing below falls inside it.
Band == {<<25, 300, 2025>>, <<35, 300, 2035>>, <<300, 25, 2300>>, <<300, 35, 2300>>}

CloudA == Patch(2, Slope, 25) (+) Patch(5, Sparse, 33) (+) Patch(7, Band, 25)
CloudB == Patch(2, Slope, 25) (+) Patch(5, Flat1050, 25) (+) Patch(7, Steep, 25)
CloudC == Patch(2, Sparse, 33) (+) Patch(5, Steep, 25) (+) Patch(9, Flat1000, 25)

Clouds == {CloudA, CloudB, CloudC}

\* Line 115: values of the grid spacing slider, which runs from 0.5 to 10.0.
Spacings == {50, 100, 150}

\* Line 114: the line width slider's default, 0.6.
LineWidths == {60}

\* A colour chosen in the colour picker.
PickedColors == {"#112233"}

\* The multiselect's value: distinct options in the order they were picked.
Selections(las) ==
    {q \in UNION {[1..n -> unique_classes(las)] : n \in 0..MaxSel} :
        \A i, j \in 1..Len(q) : i # j => q[i] # q[j]}

Range(q) == {q[i] : i \in 1..Len(q)}

\* Lines 89-117: every value the widgets can hold when the button is pressed.
ContourRequests ==
    UNION {UNION {
        {[las |-> las, selected |-> sel, picks |-> pk,
          line_width |-> lw, grid_spacing |-> gs] :
            pk \in UNION {[D -> PickedColors] : D \in SUBSET Range(sel)},
            lw \in LineWidths, gs \in Spacings}
        : sel \in Selections(las)} : las \in Clouds}

\* The requests of the two concurrent sessions.
RaceRequests ==
    {r \in ContourRequests :
        r.las = CloudB /\ r.grid_spacing = 100 /\ r.picks = <<>>}

\* Lines 89-119: the file is loaded, the widgets are read, the button is
\* pressed and plt.subplots makes the session's figure the current one.
Generate(s, R) ==
    /\ pc[s] = "idle"
    /\ \E r \in R :
          /\ req' = [req EXCEPT ![s] = r]
          /\ custom_colors' =
                [custom_colors EXCEPT ![s] = CustomColors(r.selected, r.picks)]
    /\ idx' = [idx EXCEPT ![s] = 1]
    /\ ax' = [ax EXCEPT ![s] = <<>>]
    /\ figs' = Append(figs, s)
    /\ pc' = [pc EXCEPT ![s] = "loop"]
    /\ UNCHANGED <<fs, pipeline_json, result, ui>>

\* What one pass of the loop of lines 121-140 does for class_code.
Iteration(r, colors, class_code) ==
    LET sub == Masked(r.las, class_code)
        pts == {[x |-> p.x, y |-> p.y, z |-> p.z] : p \in DOMAIN sub}
        x_range == AxisRange({p.x : p \in pts}, r.grid_spacing)
        y_range == AxisRange({p.y : p \in pts}, r.grid_spacing)
        grid_z == GridZ(pts, x_range, y_range)
        levels == Levels(r.las, class_code)
    IN  IF TooFew(BagCardinality(sub))
        THEN [class_code |-> class_code, gridded |-> FALSE, traced |-> FALSE]
        ELSE IF AllMasked(grid_z)
        THEN [class_code |-> class_code, gridded |-> TRUE, traced |-> FALSE,
              x_range |-> x_range, y_range |-> y_range]
        ELSE [class_code |-> class_code, gridded |-> TRUE, traced |-> TRUE,
              x_range |-> x_range, y_range |-> y_range,
              levels |-> levels,
              colors |-> colors[class_code],
              linewidths |-> r.line_width,
              lines |-> ContourLines(grid_z, Len(x_range), Len(y_range), levels)]

\* Lines 121-140, one class.
ProcessClass(s) ==
    /\ pc[s] = "loop"
    /\ idx[s] <= Len(req[s].selected)
    /\ ax' = [ax EXCEPT ![s] = Append(@, Iteration(req[s], custom_colors[s], req[s].selected[idx[s]]))]
    /\ idx' = [idx EXCEPT ![s] = @ + 1]
    /\ UNCHANGED <<pc, fs, pipeline_json, result, ui, req, custom_colors, figs>>

\* What a figure holds: the contour sets drawn on its axes.
Drawn(f) ==
    IF f \in Sessions
    THEN [fig |-> f, contours |-> SelectSeq(ax[f], LAMBDA e : e.traced)]
    ELSE [fig |-> f, contours |-> <<>>]

\* Lines 142-144: plt.savefig writes pyplot's current figure (a new, empty
\* one when none is open) under the fixed name.
SaveFig(s) ==
    /\ pc[s] = "loop"
    /\ idx[s] > Len(req[s].selected)
    /\ figs' = IF figs = <<>> THEN <<0>> ELSE figs
    /\ fs' = [fs EXCEPT ![output_img_path] = Drawn(figs'[Len(figs')])]
    /\ pc' = [pc EXCEPT ![s] = "saved"]
    /\ UNCHANGED <<pipeline_json, result, ui, req, idx, custom_colors, ax>>

\* Line 145: plt.close() closes pyplot's current figure.
CloseFig(s) ==
    /\ pc[s] = "saved"
    /\ figs' = IF figs = <<>> THEN figs ELSE SubSeq(figs, 1, Len(figs) - 1)
    /\ pc' = [pc EXCEPT ![s] = "closed"]
    /\ UNCHANGED <<fs, pipeline_json, result, ui, req, idx, custom_colors, ax>>

\* Lines 147-149: the image found under the fixed name is shown and offered
\* for download.
ShowImage(s) ==
    /\ pc[s] = "closed"
    /\ ui' = [ui EXCEPT ![s] =
          [status |-> "image", text |-> "",
           offered |-> TRUE, download |-> fs[output_img_path]]]
    /\ pc' = [pc EXCEPT ![s] = "done"]
    /\ UNCHANGED <<fs, pipeline_json, result, req, idx, custom_colors, ax, figs>>

\* The two sessions, each running step 1 or step 2.
Next ==
    \E s \in Sessions :
        \/ Upload(s)
        \/ WritePipeline(s)
        \/ RunPdal(s)
        \/ Report(s)
        \/ Generate(s, RaceRequests)
        \/ ProcessClass(s)
        \/ SaveFig(s)
        \/ CloseFig(s)
        \/ ShowImage(s)

Spec == Init /\ [][Next]_vars

\* One session running step 2 over every request.
ContourNext ==
    \E s \in {1} :
        \/ Generate(s, ContourRequests)
        \/ ProcessClass(s)
        \/ SaveFig(s)
        \/ CloseFig(s)
        \/ ShowImage(s)

SpecContour == Init /\ [][ContourNext]_vars

(***************************************************************************)
(* Step 1: the claims.                                                     *)
(***************************************************************************)

\* The classification codes of the closed enum.
ClassEnum == {0, 2, 3, 4, 5, 6, 9}

StagesRan(s) == result[s].ran

\* C1: in every executor run, the stage that sets Classification of all
\* points to 0 runs before the ground filter and never after it.
C1_ResetBeforeGroundFilter ==
    \A s \in Sessions :
        \A i, j \in 1..Len(StagesRan(s)) :
            StagesRan(s)[i] = "filters.smrf" /\ StagesRan(s)[j] = "filters.assign"
                => j < i

\* C2: after a successful classification request, every point the ground
\* filter accepted carries class 2 in the file handed back, and every point
\* it rejected carries 0 or a higher tier.
C2_GroundPointsKeepClass2 ==
    \A s \in Sessions :
        ui[s].status = "success" =>
            LET input == fs[input_path(s)]
                out == ui[s].download
            IN \A i \in 1..Len(input) :
                  \E k \in 1..Len(out) :
                      /\ out[k].id = input[i].id
                      /\ IF input[i].ground
                         THEN out[k].Classification = 2
                         ELSE out[k].Classification \in ClassEnum \ {2}

\* C3: the result of a successful classification request holds exactly one
\* classification per input point, in the input's order, each in the enum.
C3_OneClassificationPerPoint ==
    \A s \in Sessions :
        ui[s].status = "success" =>
            LET input == fs[input_path(s)]
                out == ui[s].download
            IN /\ Len(out) = Len(input)
               /\ \A i \in 1..Len(out) :
                     /\ out[i].id = input[i].id
                     /\ out[i].Classification \in ClassEnum

\* The session ran step 1 up to its report.
Classified(s) == pc[s] = "done" /\ pipeline_json[s] # <<>>

\* C7: the classified file is offered for download only in a run whose
\* executor returned 0; a run whose executor returned non-zero ends in the
\* error state showing the executor's stderr, with no download.
C7_OutputOnlyOnSuccess ==
    \A s \in Sessions :
        /\ pipeline_json[s] # <<>> /\ ui[s].offered
              => pc[s] = "done" /\ result[s].returncode = 0
        /\ Classified(s) /\ result[s].returncode # 0
              => /\ ui[s].status = "error"
                 /\ ui[s].text = result[s].stderr
                 /\ ~ui[s].offered

\* A run that failed after the ground filter had labelled the points.
C7_Witness ==
    \E s \in Sessions :
        /\ Classified(s)
        /\ result[s].returncode # 0
        /\ \E i \in 1..Len(StagesRan(s)) : StagesRan(s)[i] = "filters.smrf"
        /\ ui[s].status = "error"
        /\ ui[s].text = "filters.hag"

\* C8: the executor run a request starts executes the description this
\* request wrote, and the image a request shows is the one it rendered.
C8_RequestsShareNoState ==
    \A s \in Sessions :
        /\ pc[s] \in {"ran", "done"} /\ pipeline_json[s] # <<>>
              => result[s].pipeline = pipeline_json[s]
        /\ ui[s].status = "image" => ui[s].download = Drawn(s)

(***************************************************************************)
(* Step 2: the claims.                                                     *)
(***************************************************************************)

\* The number of points of a class in a cloud.
PointCount(las, c) ==
    BagCardinality([p \in {q \in DOMAIN las : q.c = c} |-> las[p]])

Xs(las, c) == {p.x : p \in {q \in DOMAIN las : q.c = c}}
Ys(las, c) == {p.y : p \in {q \in DOMAIN las : q.c = c}}
Zs(las, c) == {p.z : p \in {q \in DOMAIN las : q.c = c}}

\* Some grid node of the class lies inside the hull of the class's points.
SomeNodeValid(las, c, gs) ==
    LET pts == {[x |-> p.x, y |-> p.y, z |-> p.z] :
                    p \in {q \in DOMAIN las : q.c = c}}
    IN \E i \in 0..((Max(Xs(las, c)) - Min(Xs(las, c))) \div gs),
          j \in 0..((Max(Ys(las, c)) - Min(Ys(las, c))) \div gs) :
          /\ Min(Xs(las, c)) + i * gs < Max(Xs(las, c))
          /\ Min(Ys(las, c)) + j * gs < Max(Ys(las, c))
          /\ GridData(pts, [x |-> Min(Xs(las, c)) + i * gs,
                            y |-> Min(Ys(las, c)) + j * gs]).valid

\* The loop of the session has run over every selected class.
LoopDone(s) == pc[s] \in {"saved", "closed", "done"} /\ req[s] # NoReq

\* C4: a selected class with fewer than 100 points gets no grid and no
\* contour and does not end the request: every selected class gets its pass
\* of the loop, and every class with at least 100 points and a grid that is
\* not all invalid is gridded and traced, wherever the small class stands.
C4_SmallClassSkippedOthersTraced ==
    \A s \in Sessions :
        /\ LoopDone(s) => Len(ax[s]) = Len(req[s].selected)
        /\ \A k \in 1..Len(ax[s]) :
              LET c == req[s].selected[k]
                  e == ax[s][k]
              IN /\ e.class_code = c
                 /\ PointCount(req[s].las, c) < 100 => ~e.gridded /\ ~e.traced
                 /\ PointCount(req[s].las, c) >= 100 =>
                       /\ e.gridded
                       /\ e.traced <=>
                             SomeNodeValid(req[s].las, c, req[s].grid_spacing)

\* A class of 99 points selected first and skipped, a class of 100 points
\* selected after it and traced, and the image shown.
C4_Witness ==
    \E s \in Sessions :
        /\ pc[s] = "done"
        /\ Len(ax[s]) = 2
        /\ PointCount(req[s].las, req[s].selected[1]) = 99
        /\ ~ax[s][1].gridded
        /\ PointCount(req[s].las, req[s].selected[2]) = 100
        /\ ax[s][2].traced

\* The hex form of the default colour of a class.
DefaultHex(c) ==
    CASE c = 2 -> "#ffffff"
      [] c = 3 -> "#90ee90"
      [] c = 4 -> "#008000"
      [] c = 5 -> "#006400"
      [] c = 6 -> "#708090"
      [] c = 9 -> "#0000ff"
      [] OTHER -> "#ffff00"

\* C5: every selected class has a colour; the contours of a class are drawn
\* in the caller's colour when one was picked for the class, otherwise in
\* the default table's colour, yellow for a class the table lacks.
C5_ContourColour ==
    \A s \in Sessions :
        /\ \A k \in 1..Len(req[s].selected) :
              req[s].selected[k] \in DOMAIN custom_colors[s]
        /\ \A k \in 1..Len(ax[s]) :
              ax[s][k].traced =>
                  ax[s][k].colors =
                      IF ax[s][k].class_code \in DOMAIN req[s].picks
                      THEN req[s].picks[ax[s][k].class_code]
                      ELSE DefaultHex(ax[s][k].class_code)

\* Class 2 traced in the picked colour and class 7, which the table lacks,
\* traced in yellow.
C5_Witness ==
    \E s \in Sessions :
        /\ Len(ax[s]) = 2
        /\ ax[s][1].traced /\ ax[s][1].class_code = 2
        /\ ax[s][1].colors = "#112233"
        /\ ax[s][2].traced /\ ax[s][2].class_code = 7
        /\ ax[s][2].colors = "#ffff00"

\* C9: the levels of a traced class start at floor(min z), rise in steps of
\* 0.2 and stay below ceil(max z), min and max taken over the class's own
\* points; a constant field gets no contour line.
C9_LevelsFromOwnPoints ==
    \A s \in Sessions :
        \A k \in 1..Len(ax[s]) :
            ax[s][k].traced =>
                LET zs == Zs(req[s].las, ax[s][k].class_code)
                    lo == (Min(zs) \div 100) * 100
                    hi == -(((-Max(zs)) \div 100) * 100)
                    lv == ax[s][k].levels
                IN /\ \A i \in 1..Len(lv) : lv[i] = lo + (i - 1) * 20 /\ lv[i] < hi
                   /\ lo + Len(lv) * 20 >= hi
                   /\ Min(zs) = Max(zs) => ax[s][k].lines = {}

\* A constant field at 10.50 m with the levels 10.0 .. 10.8 and no line,
\* beside a sloping class whose levels start at 9.0 m and find lines.
C9_Witness ==
    \E s \in Sessions :
        \E k, m \in 1..Len(ax[s]) :
            /\ ax[s][k].traced
            /\ Zs(req[s].las, ax[s][k].class_code) = {1050}
            /\ ax[s][k].levels = <<1000, 1020, 1040, 1060, 1080>>
            /\ ax[s][k].lines = {}
            /\ ax[s][m].traced
            /\ ax[s][m].levels[1] = 900
            /\ ax[s][m].lines # {}

\* The nodes of one axis: in steps of the spacing from the least
\* coordinate, below the greatest, the last within one spacing of it.
AxisCovers(nodes, vals, gs) ==
    /\ \A i \in 1..Len(nodes) :
          /\ nodes[i] = Min(vals) + (i - 1) * gs
          /\ nodes[i] >= Min(vals)
          /\ nodes[i] < Max(vals)
    /\ Max(vals) > Min(vals) =>
          /\ Len(nodes) >= 1
          /\ nodes[1] = Min(vals)
          /\ Max(vals) - nodes[Len(nodes)] <= gs

\* C10: every grid node of a class lies inside the bounding box of the
\* class's points, the first at the minimum, the last within one spacing
\* of the maximum.
C10_GridInsideBoundingBox ==
    \A s \in Sessions :
        \A k \in 1..Len(ax[s]) :
            ax[s][k].gridded =>
                /\ AxisCovers(ax[s][k].x_range,
                              Xs(req[s].las, ax[s][k].class_code),
                              req[s].grid_spacing)
                /\ AxisCovers(ax[s][k].y_range,
                              Ys(req[s].las, ax[s][k].class_code),
                              req[s].grid_spacing)

\* A 3 m by 2 m class at spacing 1.5 m: x nodes 0 and 1.5, the last a
\* whole spacing below the maximum; y nodes 0 and 1.5, 0.5 m below it.
C10_Witness ==
    \E s \in Sessions :
        \E k \in 1..Len(ax[s]) :
            /\ ax[s][k].gridded
            /\ req[s].grid_spacing = 150
            /\ ax[s][k].x_range = <<0, 150>>
            /\ ax[s][k].y_range = <<0, 150>>
            /\ Max(Ys(req[s].las, ax[s][k].class_code)) = 200

====
